---- MODULE Spec2Model ----
(***************************************************************************)
(* Model of src/src/index.js: createStore, a tiny evented state container. *)
(*                                                                         *)
(* JavaScript objects live in a heap (a sequence of objects; a reference   *)
(* is an index), so that "state = update" shares an object and             *)
(* "assign({}, state)" creates one.  An object is the sequence of its      *)
(* <<key, value>> pairs in property order.  setState runs synchronously    *)
(* and calls back into caller code, which may call the store again: the    *)
(* activations of setState form a stack of frames, and a callback that is  *)
(* running may do anything the store's API allows.                         *)
(***************************************************************************)
EXTENDS Integers, Sequences, FiniteSets, TLC

\* Bounds of the model.
MaxCalls == 2   \* setState calls in one behaviour, nested ones included
MaxRegs == 2    \* observer registrations (subscribe and on) in one behaviour

Undefined == "undefined"

\* const noop = () => {};
noop == "noop"

\* The objects caller code owns and passes as updates or as the initial
\* state: {}, {a: '1'}, {b: '1', a: '2'}.  They are references 1..3.
Pool ==
  << <<>>,
     << <<"a", "1">> >>,
     << <<"b", "1">>, <<"a", "2">> >> >>

PoolRefs == 1..Len(Pool)

\* Arguments of createStore(state): no argument (0), or an object of the
\* caller (a reference of the pool).
InitArgs == {0, 2}

Keys == {"a", "b"}

\* The (callback, effect) pairs caller code registers; an omitted effect
\* takes the default parameter value noop.
Registrations ==
  { <<"f", Undefined>>, <<"g", "e">> }

VARIABLES
  heap,         \* the objects: heap[r] is the object with reference r
  state,        \* let state: a reference
  listeners,    \* let listeners = []: records {_li, _ef}
  onListeners,  \* let onListeners = new Map(): key -> records {_li, _ef}
  stack,        \* the activations of setState, innermost last
  calls,        \* history: one record per setState call, in order of entry
  log,          \* history: the observer invocations, in order
  got,          \* the reference getState() has just returned to caller code
                \* (0: the last step was not a getState() call)
  regLog        \* history: the subscribe and on calls, in order

vars == <<heap, state, listeners, onListeners, stack, calls, log, got, regLog>>

----------------------------------------------------------------------------
\* JavaScript objects

\* key in obj
HasKey(obj, key) == \E n \in 1..Len(obj) : obj[n][1] = key

\* obj[key]
Get(obj, key) ==
  IF HasKey(obj, key)
    THEN obj[CHOOSE n \in 1..Len(obj) : obj[n][1] = key][2]
    ELSE Undefined

\* obj[key] = v
Put(obj, key, v) ==
  IF HasKey(obj, key)
    THEN [n \in 1..Len(obj) |-> IF obj[n][1] = key THEN <<key, v>> ELSE obj[n]]
    ELSE Append(obj, <<key, v>>)

\* Object.keys(obj)
ObjectKeys(obj) == [n \in 1..Len(obj) |-> obj[n][1]]

RECURSIVE assignFrom(_, _, _)
assignFrom(obj, props, n) ==
  IF n > Len(props)
    THEN obj
    ELSE assignFrom(Put(obj, props[n][1], props[n][2]), props, n + 1)

\* assign(obj, props) of ./util: copies the properties of props onto the
\* object obj refers to, in place; h is the heap before, the result the heap
\* after (the call returns obj).
assign(h, obj, props) ==
  [h EXCEPT ![obj] = assignFrom(h[obj], h[props], 1)]

----------------------------------------------------------------------------
\* createStore(state)

Init ==
  /\ \E arg \in InitArgs :
       IF arg = 0
         THEN /\ heap = Append(Pool, <<>>)      \* state = state || {}
              /\ state = Len(Pool) + 1
         ELSE /\ heap = Pool
              /\ state = arg
  /\ listeners = <<>>
  /\ onListeners = [key \in {} |-> <<>>]
  /\ stack = <<>>
  /\ calls = <<>>
  /\ log = <<>>
  /\ got = 0
  /\ regLog = <<>>

----------------------------------------------------------------------------
\* Caller code runs at top level (no setState active) or inside a callback
\* that the innermost setState has invoked and that has not returned.

Top == stack[Len(stack)]

CallerActive == IF stack = <<>> THEN TRUE ELSE Top.running

ReplaceTop(f) == [stack EXCEPT ![Len(stack)] = f]

RegCount ==
  Len(listeners)
    + Cardinality(UNION { {<<key, n>> : n \in 1..Len(onListeners[key])} :
                          key \in DOMAIN onListeners })

\* AssignState with the two assign calls in the other order: the properties
\* of the old state win over those of update.
AssignStateOldWins(h, st, update, overwrite) ==
  IF overwrite
    THEN [heap |-> h, state |-> update]
    ELSE LET fresh == Len(h) + 1
             h0 == Append(h, <<>>)
             h1 == assign(h0, fresh, update)
             h2 == assign(h1, fresh, st)
         IN  [heap |-> h2, state |-> fresh]

\* AssignState that copies update when overwrite is set, instead of taking
\* the object itself.
AssignStateCopies(h, st, update, overwrite) ==
  LET fresh == Len(h) + 1
      h0 == Append(h, <<>>)
      h1 == IF overwrite THEN h0 ELSE assign(h0, fresh, st)
      h2 == assign(h1, fresh, update)
  IN  [heap |-> h2, state |-> fresh]

\* AssignState that merges update into the object state refers to, without
\* the copy assign({}, state).
AssignStateInPlace(h, st, update, overwrite) ==
  IF overwrite
    THEN [heap |-> h, state |-> update]
    ELSE [heap |-> assign(h, st, update), state |-> st]

\* state = overwrite ? update : assign(assign({}, state), update);
\* the heap and the reference in state after the assignment.
AssignState(h, st, update, overwrite) ==
  IF overwrite
    THEN [heap |-> h, state |-> update]
    ELSE LET fresh == Len(h) + 1
             h0 == Append(h, <<>>)
             h1 == assign(h0, fresh, st)
             h2 == assign(h1, fresh, update)
         IN  [heap |-> h2, state |-> fresh]

\* let currentListeners = listeners: the same array, not a copy of it.
currentListeners(ls) == ls

\* Push that queues the new activation behind the ones that are running.
PushDeferred(s, f) == <<f>> \o s

\* A synchronous call: the new activation runs before its caller goes on.
Push(s, f) == Append(s, f)

\* setState(update, overwrite) up to its first loop test: the assignment to
\* state and a new activation.
setState(update, overwrite) ==
  /\ CallerActive
  /\ Len(calls) < MaxCalls
  /\ LET new == AssignState(heap, state, update, overwrite)
     IN  /\ heap' = new.heap
         /\ state' = new.state
         /\ stack' = Push(stack,
              [call |-> Len(calls) + 1, update |-> update, phase |-> 1,
               i |-> 0, stateChanged |-> <<>>, j |-> 0, k |-> 0,
               fn |-> "_li", running |-> FALSE])
         /\ calls' = Append(calls,
              [update |-> update, overwrite |-> overwrite,
               updateObj |-> heap[update],
               prior |-> state, priorObj |-> heap[state],
               computed |-> new.state, computedObj |-> new.heap[new.state],
               n0 |-> Len(listeners), regs0 |-> listeners, on0 |-> onListeners,
               parent |-> IF stack = <<>> THEN 0 ELSE Top.call,
               at |-> Len(log),
               outcome |-> "active", exit |-> 0, endAt |-> 0, lastAtExit |-> 0])
  /\ got' = 0
  /\ UNCHANGED <<listeners, onListeners, log, regLog>>

\* The history when the activation of call c ends (how: "returned", "threw").
Ended(c, how) ==
  [calls EXCEPT ![c].outcome = how, ![c].exit = state,
                ![c].endAt = Len(log), ![c].lastAtExit = Len(calls)]

\* AfterCallback that runs the whole-state loop again after each slice
\* observer.
AfterCallbackRenotify(f) ==
  IF f.fn = "_li"
    THEN [f EXCEPT !.fn = "_ef", !.running = FALSE]
    ELSE IF f.phase = 1
      THEN [f EXCEPT !.fn = "_li", !.running = FALSE, !.i = f.i + 1]
      ELSE [f EXCEPT !.fn = "_li", !.running = FALSE, !.k = f.k + 1,
                     !.phase = 1, !.i = 0]

\* The frame after the callback it invoked is over: _li is followed by _ef,
\* _ef by the next index of the loop.
AfterCallback(f) ==
  IF f.fn = "_li"
    THEN [f EXCEPT !.fn = "_ef", !.running = FALSE]
    ELSE IF f.phase = 1
      THEN [f EXCEPT !.fn = "_li", !.running = FALSE, !.i = f.i + 1]
      ELSE [f EXCEPT !.fn = "_li", !.running = FALSE, !.k = f.k + 1]

\* The frame after it has called cb: noop returns at once, any other
\* callback is caller code that now runs.
Invoked(f, cb) ==
  IF cb = noop THEN AfterCallback(f) ELSE [f EXCEPT !.running = TRUE]

\* Phase1Invoke that passes the state as it was before the call's
\* assignment.
Phase1InvokeOldState ==
  /\ stack # <<>>
  /\ ~Top.running
  /\ Top.phase = 1
  /\ Top.i < Len(currentListeners(listeners))
  /\ LET cb == currentListeners(listeners)[Top.i + 1][Top.fn]
     IN  /\ log' = Append(log,
               [call |-> Top.call, phase |-> 1, key |-> "", idx |-> Top.i,
                fn |-> Top.fn, cb |-> cb, arg |-> calls[Top.call].prior])
         /\ stack' = ReplaceTop(Invoked(Top, cb))
  /\ got' = 0
  /\ UNCHANGED <<heap, state, listeners, onListeners, calls, regLog>>

\* for (let i=0; i<currentListeners.length; i++) {
\*   currentListeners[i]._li(state); currentListeners[i]._ef(state); }
Phase1Invoke ==
  /\ stack # <<>>
  /\ ~Top.running
  /\ Top.phase = 1
  /\ Top.i < Len(currentListeners(listeners))
  /\ LET cb == currentListeners(listeners)[Top.i + 1][Top.fn]
     IN  /\ log' = Append(log,
               [call |-> Top.call, phase |-> 1, key |-> "", idx |-> Top.i,
                fn |-> Top.fn, cb |-> cb, arg |-> state])
         /\ stack' = ReplaceTop(Invoked(Top, cb))
  /\ got' = 0
  /\ UNCHANGED <<heap, state, listeners, onListeners, calls, regLog>>

\* stateChanged that takes the keys of the new state, not those of update.
stateChangedOfState(h, update) == ObjectKeys(h[state])

\* let stateChanged = Object.keys(update)
stateChanged(h, update) == ObjectKeys(h[update])

\* The first loop ends and the second begins.
Phase1Exit ==
  /\ stack # <<>>
  /\ ~Top.running
  /\ Top.phase = 1
  /\ Top.i >= Len(currentListeners(listeners))
  /\ stack' = ReplaceTop([Top EXCEPT !.phase = 2,
                            !.stateChanged = stateChanged(heap, Top.update)])
  /\ got' = 0
  /\ UNCHANGED <<heap, state, listeners, onListeners, calls, log, regLog>>

\* let _key = stateChanged[j]
CurrentKey(f) == f.stateChanged[f.j + 1]

\* sliceLength that is the length the key's list had when the call began.
sliceLengthAtStart(key) ==
  IF key \in DOMAIN calls[Top.call].on0
    THEN Len(calls[Top.call].on0[key])
    ELSE 0

\* listeners.length of the second loop: let listeners = onListeners.get(_key)
\* is the array on() pushes to, and its length is read at each loop test.
sliceLength(key) == Len(onListeners[key])

\* if (onListeners.has(_key)) { let listeners = onListeners.get(_key);
\*   for (let k=0; k<listeners.length; k++) {
\*     listeners[k]._li(state[_key]); listeners[k]._ef(state[_key]) } }
Phase2Invoke ==
  /\ stack # <<>>
  /\ ~Top.running
  /\ Top.phase = 2
  /\ Top.j < Len(Top.stateChanged)
  /\ CurrentKey(Top) \in DOMAIN onListeners
  /\ Top.k < sliceLength(CurrentKey(Top))
  /\ LET cb == onListeners[CurrentKey(Top)][Top.k + 1][Top.fn]
     IN  /\ log' = Append(log,
               [call |-> Top.call, phase |-> 2, key |-> CurrentKey(Top),
                idx |-> Top.k, fn |-> Top.fn, cb |-> cb,
                arg |-> Get(heap[state], CurrentKey(Top))])
         /\ stack' = ReplaceTop(Invoked(Top, cb))
  /\ got' = 0
  /\ UNCHANGED <<heap, state, listeners, onListeners, calls, regLog>>

\* The key has no observers, or the loop over them ends: j++.
Phase2NextKey ==
  /\ stack # <<>>
  /\ ~Top.running
  /\ Top.phase = 2
  /\ Top.j < Len(Top.stateChanged)
  /\ IF CurrentKey(Top) \in DOMAIN onListeners
       THEN Top.k >= sliceLength(CurrentKey(Top))
       ELSE TRUE
  /\ stack' = ReplaceTop([Top EXCEPT !.j = Top.j + 1, !.k = 0])
  /\ got' = 0
  /\ UNCHANGED <<heap, state, listeners, onListeners, calls, log, regLog>>

\* The second loop ends and setState returns to its caller.
SetStateReturn ==
  /\ stack # <<>>
  /\ ~Top.running
  /\ Top.phase = 2
  /\ Top.j >= Len(Top.stateChanged)
  /\ stack' = SubSeq(stack, 1, Len(stack) - 1)
  /\ calls' = Ended(Top.call, "returned")
  /\ got' = 0
  /\ UNCHANGED <<heap, state, listeners, onListeners, log, regLog>>

\* The running callback returns.
CallbackReturn ==
  /\ stack # <<>>
  /\ Top.running
  /\ stack' = ReplaceTop(AfterCallback(Top))
  /\ got' = 0
  /\ UNCHANGED <<heap, state, listeners, onListeners, calls, log, regLog>>

\* Unwind that catches the exception and goes on with the next observer.
UnwindCaught(s) == [s EXCEPT ![Len(s)] = AfterCallback(s[Len(s)])]

\* The stack after a callback of its innermost activation has thrown:
\* setState has no try, the activation ends and the exception is its
\* caller's.
Unwind(s) == SubSeq(s, 1, Len(s) - 1)

\* The running callback throws (an exception of its own, or one of a nested
\* setState it does not catch).
CallbackThrow ==
  /\ stack # <<>>
  /\ Top.running
  /\ stack' = Unwind(stack)
  /\ calls' = Ended(Top.call, "threw")
  /\ got' = 0
  /\ UNCHANGED <<heap, state, listeners, onListeners, log, regLog>>

\* The history entry of a subscribe (key "") or on(key) call that registers
\* rec: the activations of setState at that moment, and what was in the log.
Registered(key, rec) ==
  [key |-> key, rec |-> rec, frames |-> stack, at |-> Len(log)]

\* on that sets the key's list to the new record alone, replacing earlier
\* registrations.
onReplaces(stateSlice, callback, effect) ==
  /\ CallerActive
  /\ Len(regLog) < MaxRegs
  /\ LET _call == [_li |-> callback,
                   _ef |-> IF effect = Undefined THEN noop ELSE effect]
     IN  /\ onListeners' =
               [key \in DOMAIN onListeners \cup {stateSlice} |->
                  IF key = stateSlice THEN <<_call>> ELSE onListeners[key]]
         /\ regLog' = Append(regLog, Registered(stateSlice, _call))
  /\ got' = 0
  /\ UNCHANGED <<heap, state, listeners, stack, calls, log>>

\* function on(stateSlice, callback, effect = noop)
on(stateSlice, callback, effect) ==
  /\ CallerActive
  /\ RegCount < MaxRegs
  /\ LET ensured ==
           IF stateSlice \in DOMAIN onListeners
             THEN onListeners
             ELSE [key \in DOMAIN onListeners \cup {stateSlice} |->
                     IF key = stateSlice THEN <<>> ELSE onListeners[key]]
         _call == [_li |-> callback,
                   _ef |-> IF effect = Undefined THEN noop ELSE effect]
     IN  /\ onListeners' =
           [ensured EXCEPT ![stateSlice] = Append(ensured[stateSlice], _call)]
         /\ regLog' = Append(regLog, Registered(stateSlice, _call))
  /\ got' = 0
  /\ UNCHANGED <<heap, state, listeners, stack, calls, log>>

\* subscribe that calls the new listener at once with the current state.
subscribeNotifies(listener, effect) ==
  /\ CallerActive
  /\ RegCount < MaxRegs
  /\ LET _listener == [_li |-> listener,
                       _ef |-> IF effect = Undefined THEN noop ELSE effect]
     IN  /\ listeners' = Append(listeners, _listener)
         /\ regLog' = Append(regLog, Registered("", _listener))
         /\ log' = Append(log, [call |-> 0, phase |-> 1, key |-> "",
                                idx |-> Len(listeners), fn |-> "_li",
                                cb |-> listener, arg |-> state])
  /\ got' = 0
  /\ UNCHANGED <<heap, state, onListeners, stack, calls>>

\* subscribe(listener, effect = noop)
subscribe(listener, effect) ==
  /\ CallerActive
  /\ RegCount < MaxRegs
  /\ LET _listener == [_li |-> listener,
                       _ef |-> IF effect = Undefined THEN noop ELSE effect]
     IN  /\ listeners' = Append(listeners, _listener)
         /\ regLog' = Append(regLog, Registered("", _listener))
  /\ got' = 0
  /\ UNCHANGED <<heap, state, onListeners, stack, calls, log>>

\* getState() { return state; }
getState ==
  /\ CallerActive
  /\ got' = state
  /\ UNCHANGED <<heap, state, listeners, onListeners, stack, calls, log, regLog>>

Next ==
  \/ \E update \in PoolRefs, overwrite \in BOOLEAN : setState(update, overwrite)
  \/ Phase1Invoke
  \/ Phase1Exit
  \/ Phase2Invoke
  \/ Phase2NextKey
  \/ SetStateReturn
  \/ CallbackReturn
  \/ CallbackThrow
  \/ \E stateSlice \in Keys, r \in Registrations : on(stateSlice, r[1], r[2])
  \/ \E r \in Registrations : subscribe(r[1], r[2])
  \/ getState

Spec == Init /\ [][Next]_vars

----------------------------------------------------------------------------
\* Properties.  Events(c) are the positions of log that call c made.

Calls == 1..Len(calls)

Events(c) == {n \in 1..Len(log) : log[n].call = c}

\* The most recent setState call: the one whose assignment state holds.
LastCall == calls[Len(calls)]

\* The set of keys of obj
KeySet(obj) == {obj[n][1] : n \in 1..Len(obj)}

UniqueKeys(obj) == Cardinality(KeySet(obj)) = Len(obj)

\* C1. Merge correctness: after setState(U) without overwrite on a state S,
\* and until the next setState call, getState() returns a state R whose keys
\* are exactly those of S and of U, with R[k] = U[k] for k in U and
\* R[k] = S[k] for k in S only.
C1_MergeCorrect ==
  (calls # <<>> /\ ~LastCall.overwrite) =>
    LET S == LastCall.priorObj
        U == LastCall.updateObj
        R == heap[state]
    IN  /\ state = LastCall.computed
        /\ got # 0 => got = state
        /\ UniqueKeys(R)
        /\ KeySet(R) = KeySet(S) \cup KeySet(U)
        /\ \A key \in KeySet(U) : Get(R, key) = Get(U, key)
        /\ \A key \in KeySet(S) \ KeySet(U) : Get(R, key) = Get(S, key)

\* A merge has returned where update changes a key of the old state and
\* leaves another alone, and getState() has read the result.
C1_Witness ==
  /\ calls # <<>>
  /\ ~LastCall.overwrite
  /\ LastCall.outcome = "returned"
  /\ got = state
  /\ \E key \in KeySet(LastCall.priorObj) \cap KeySet(LastCall.updateObj) :
       Get(LastCall.priorObj, key) # Get(LastCall.updateObj, key)
  /\ KeySet(LastCall.priorObj) \ KeySet(LastCall.updateObj) # {}

\* C2. Overwrite correctness: after setState(U, true), and until the next
\* setState call, getState() returns U itself, with the contents U had,
\* whatever the old state was.
C2_OverwriteCorrect ==
  (calls # <<>> /\ LastCall.overwrite) =>
    /\ state = LastCall.update
    /\ got # 0 => got = LastCall.update
    /\ heap[state] = LastCall.updateObj

\* An overwrite has returned that dropped a key of the old state, and
\* getState() has read the result.
C2_Witness ==
  /\ calls # <<>>
  /\ LastCall.overwrite
  /\ LastCall.outcome = "returned"
  /\ got = state
  /\ KeySet(LastCall.priorObj) \ KeySet(heap[state]) # {}

\* C3. Notification order: within one setState call every whole-state
\* observer invocation (phase 1) comes before every slice observer
\* invocation (phase 2) of that call.
C3_WholeBeforeSlice ==
  \A m, n \in 1..Len(log) :
    (log[m].call = log[n].call /\ log[m].phase = 2 /\ log[n].phase = 1)
      => n < m

\* One call has invoked a whole-state observer and a slice observer on "a".
C3_Witness ==
  \E c \in Calls :
    /\ calls[c].outcome = "returned"
    /\ \E n \in Events(c) : log[n].phase = 1
    /\ \E n \in Events(c) : log[n].phase = 2 /\ log[n].key = "a"

\* C4. Slice isolation: a setState(update) call invokes a slice observer on
\* key k only if k is a key of update.
C4_SliceIsolation ==
  \A n \in 1..Len(log) :
    log[n].phase = 2 => log[n].key \in KeySet(calls[log[n].call].updateObj)

\* A call whose update has no key "b" has returned; when it started "b" had
\* a slice observer, and "b" was a key of the state; it invoked whole-state
\* observers and no slice observer.
C4_Witness ==
  \E c \in Calls :
    /\ calls[c].outcome = "returned"
    /\ calls[c].updateObj # <<>>
    /\ "b" \notin KeySet(calls[c].updateObj)
    /\ "b" \in KeySet(heap[calls[c].computed])
    /\ "b" \in DOMAIN calls[c].on0
    /\ \E n \in Events(c) : log[n].phase = 1
    /\ \A n \in Events(c) : log[n].phase = 1

\* C5. One snapshot per call: every whole-state observer a setState call
\* invokes receives the state that call computed, and every slice observer
\* on key k it invokes receives that state's value at k.
C5_OneSnapshotPerCall ==
  \A n \in 1..Len(log) :
    LET c == calls[log[n].call]
    IN  IF log[n].phase = 1
          THEN log[n].arg = c.computed
          ELSE log[n].arg = Get(heap[c.computed], log[n].key)

\* C6. Snapshot of the whole-state observer list: a setState call invokes
\* only the whole-state observers that were registered when it started.
C6_ListenerSnapshot ==
  \A n \in 1..Len(log) :
    log[n].phase = 1 => log[n].idx < calls[log[n].call].n0

RECURSIVE IsAncestor(_, _)
\* Call c was made, directly or not, from a callback of call p.
IsAncestor(p, c) ==
  /\ calls[c].parent # 0
  /\ \/ calls[c].parent = p
     \/ IsAncestor(p, calls[c].parent)

\* Position of key in the key order of obj (0: not a key).
KeyPos(obj, key) ==
  IF HasKey(obj, key) THEN CHOOSE n \in 1..Len(obj) : obj[n][1] = key ELSE 0

\* Event e2 is the invocation that follows e1 in the loops of the call that
\* made both, whose update is upd.
Follows(e1, e2, upd) ==
  IF e1.fn = "_li"
    THEN e2.fn = "_ef" /\ e2.phase = e1.phase /\ e2.key = e1.key /\ e2.idx = e1.idx
    ELSE /\ e2.fn = "_li"
         /\ IF e1.phase = 1
              THEN \/ e2.phase = 1 /\ e2.idx = e1.idx + 1
                   \/ e2.phase = 2 /\ e2.idx = 0
              ELSE /\ e2.phase = 2
                   /\ \/ e2.key = e1.key /\ e2.idx = e1.idx + 1
                      \/ KeyPos(upd, e1.key) < KeyPos(upd, e2.key) /\ e2.idx = 0

\* Call c has invoked _li and _ef of every whole-state observer registered
\* when it started, and of every slice observer then registered on a key of
\* its update.
VisitedAll(c) ==
  /\ \A i \in 0..(calls[c].n0 - 1), fn \in {"_li", "_ef"} :
       \E n \in Events(c) :
         log[n].phase = 1 /\ log[n].idx = i /\ log[n].fn = fn
  /\ \A key \in KeySet(calls[c].updateObj) \cap DOMAIN calls[c].on0 :
       \A k \in 0..(Len(calls[c].on0[key]) - 1), fn \in {"_li", "_ef"} :
         \E n \in Events(c) :
           log[n].phase = 2 /\ log[n].key = key /\ log[n].idx = k /\ log[n].fn = fn

\* C7. Re-entrant update: when a callback of call p calls setState, every
\* invocation p makes after that comes after the nested call has ended with
\* all its invocations made; p's own invocations keep the order of its
\* loops, and p, when it returns, has gone through its remaining whole-state
\* observers and its phase 2.
C7_NestedCompletesFirst ==
  /\ \A p, c \in Calls :
       IsAncestor(p, c) =>
         \A n \in Events(p) :
           n > calls[c].at =>
             /\ calls[c].outcome # "active"
             /\ calls[c].endAt < n
             /\ \A m \in Events(c) : m <= calls[c].endAt
  /\ \A p \in Calls :
       /\ \A m, n \in Events(p) :
            (m < n /\ \A x \in Events(p) : ~(m < x /\ x < n))
              => Follows(log[m], log[n], calls[p].updateObj)
       /\ calls[p].outcome = "returned" => VisitedAll(p)

\* A whole-state observer of call p called setState; the nested call made
\* invocations in both phases and returned; p then made a further phase 1
\* invocation and a phase 2 invocation and returned.
C7_Witness ==
  \E p, c \in Calls :
    /\ calls[c].parent = p
    /\ calls[c].at > 0
    /\ log[calls[c].at].call = p
    /\ log[calls[c].at].phase = 1
    /\ calls[c].outcome = "returned"
    /\ \E n \in Events(c) : log[n].phase = 1
    /\ \E n \in Events(c) : log[n].phase = 2
    /\ calls[p].outcome = "returned"
    /\ \E n \in Events(p) : n > calls[c].endAt /\ log[n].phase = 1
    /\ \E n \in Events(p) : log[n].phase = 2

\* The activation of a call that threw is gone and the call made no
\* invocation after the throw.
ThrowAborts ==
  \A c \in Calls :
    calls[c].outcome = "threw" =>
      /\ \A d \in 1..Len(stack) : stack[d].call # c
      /\ \A n \in Events(c) : n <= calls[c].endAt

\* C8 as stated. Observer failure: the call ends with the exception, makes no
\* further invocation, and getState() then returns the state that call
\* computed.
C8_ThrowKeepsOwnState ==
  /\ ThrowAborts
  /\ \A c \in Calls :
       calls[c].outcome = "threw" => calls[c].exit = calls[c].computed

\* C8 as amended. Observer failure: the call ends with the exception, makes
\* no further invocation, and the state is not rolled back: getState() then
\* returns the state computed by the most recent setState call, which is
\* that call's own new state unless a callback of its pass called setState.
C8_ThrowKeepsLatestState ==
  /\ ThrowAborts
  /\ calls # <<>> => state = LastCall.computed
  /\ \A c \in Calls :
       calls[c].outcome = "threw" =>
         /\ calls[c].exit = calls[calls[c].lastAtExit].computed
         /\ calls[c].lastAtExit = c => calls[c].exit = calls[c].computed

\* A callback of a whole-state observer threw in a call made at top level
\* that changed the state; an observer of that pass was left out, and
\* getState() has read the state.
C8_Witness ==
  \E c \in Calls :
    /\ calls[c].outcome = "threw"
    /\ stack = <<>>
    /\ c = Len(calls)
    /\ Events(c) # {}
    /\ \A n \in Events(c) : log[n].phase = 1
    /\ \/ \E i \in 0..(calls[c].n0 - 1) : \A n \in Events(c) : log[n].idx # i
       \/ KeySet(calls[c].updateObj) \cap DOMAIN calls[c].on0 # {}
    /\ heap[state] # calls[c].priorObj
    /\ got = state

\* C9. No-op update: setState({}) without overwrite leaves the contents of
\* the state as they were, invokes every registered whole-state observer
\* with that unchanged state, and invokes no slice observer.
C9_NoOpUpdate ==
  \A c \in Calls :
    (calls[c].updateObj = <<>> /\ ~calls[c].overwrite) =>
      /\ heap[calls[c].computed] = calls[c].priorObj
      /\ \A n \in Events(c) :
           log[n].phase = 1 /\ heap[log[n].arg] = calls[c].priorObj
      /\ calls[c].outcome = "returned" => VisitedAll(c)

\* No callback threw in call c or in a call nested in it.
NoThrowIn(c) ==
  \A d \in Calls : (d = c \/ IsAncestor(c, d)) => calls[d].outcome # "threw"

\* The event of call c that follows its event at position n (0: none).
NextEvent(c, n) ==
  IF \E m \in Events(c) : m > n
    THEN CHOOSE m \in Events(c) : m > n /\ \A x \in Events(c) : ~(n < x /\ x < m)
    ELSE 0

\* C10. Phase 1 order and multiplicity: a setState call in which no callback
\* throws invokes each whole-state observer registered before the call
\* exactly once, in subscription order, its onChange and then at once its
\* onEffect with the same payload; a callback subscribed n times is invoked
\* n times.
C10_Phase1OrderMultiplicity ==
  \A c \in Calls :
    (calls[c].outcome = "returned" /\ NoThrowIn(c)) =>
      /\ \A i \in 0..(calls[c].n0 - 1), fn \in {"_li", "_ef"} :
           Cardinality({n \in Events(c) :
             log[n].phase = 1 /\ log[n].idx = i /\ log[n].fn = fn}) = 1
      /\ \A n \in Events(c) :
           (log[n].phase = 1 /\ log[n].idx < calls[c].n0) =>
             /\ log[n].cb = calls[c].regs0[log[n].idx + 1][log[n].fn]
             /\ \A m \in Events(c) :
                  (m < n /\ log[m].phase = 1) => log[m].idx <= log[n].idx
             /\ log[n].fn = "_li" =>
                  /\ NextEvent(c, n) # 0
                  /\ log[NextEvent(c, n)].phase = 1
                  /\ log[NextEvent(c, n)].idx = log[n].idx
                  /\ log[NextEvent(c, n)].fn = "_ef"
                  /\ log[NextEvent(c, n)].arg = log[n].arg

\* C11. Phase 2 order and payload: a setState(update) call visits the keys
\* of update in update's key order and invokes each key's slice observers in
\* registration order, _li and then _ef, each with the value of the new
\* state at the key (under overwrite: update[key]).
C11_Phase2OrderPayload ==
  \A c \in Calls :
    /\ \A n \in Events(c) :
         log[n].phase = 2 =>
           /\ log[n].key \in KeySet(calls[c].updateObj)
           /\ log[n].cb = onListeners[log[n].key][log[n].idx + 1][log[n].fn]
           /\ log[n].arg = Get(heap[calls[c].computed], log[n].key)
           /\ calls[c].overwrite =>
                log[n].arg = Get(calls[c].updateObj, log[n].key)
    /\ \A m, n \in Events(c) :
         (m < n /\ log[m].phase = 2 /\ \A x \in Events(c) : ~(m < x /\ x < n))
           => Follows(log[m], log[n], calls[c].updateObj)
    /\ calls[c].outcome = "returned" => VisitedAll(c)

RECURSIVE RecordsFor(_, _)
\* The records that the first n subscribe (key "") or on(key) calls of the
\* history registered, in the order of the calls.
RecordsFor(key, n) ==
  IF n = 0
    THEN <<>>
    ELSE IF regLog[n].key = key
      THEN Append(RecordsFor(key, n - 1), regLog[n].rec)
      ELSE RecordsFor(key, n - 1)

\* C12. Observer lists only grow: after any sequence of operations the
\* whole-state list holds one record for each subscribe call made so far, in
\* the order of the calls, and the list of key k one record for each
\* on(k, ...) call, in the order of the calls; a key has a list exactly when
\* on was called for it.
C12_ListsOnlyGrow ==
  /\ listeners = RecordsFor("", Len(regLog))
  /\ DOMAIN onListeners = {key \in Keys : RecordsFor(key, Len(regLog)) # <<>>}
  /\ \A key \in DOMAIN onListeners :
       onListeners[key] = RecordsFor(key, Len(regLog))

\* Two on calls for one key, the first before a setState call that invoked
\* it and the second after, have both left their record, and the key is not
\* a key of the state.
C12_Witness ==
  \E key \in DOMAIN onListeners :
    /\ Len(onListeners[key]) = 2
    /\ key \notin KeySet(heap[state])
    /\ stack = <<>>
    /\ regLog[1].at = 0
    /\ regLog[2].at > 0

\* C13. Stable snapshots: every object that has been the state (one that
\* getState() returned before a setState call, or one a call made the state)
\* keeps the keys and values it had then, whatever setState calls follow;
\* without overwrite the new state is a new object, distinct from the old
\* state, from update and from every object seen before.
C13_StableSnapshots ==
  \A c \in Calls :
    /\ heap[calls[c].prior] = calls[c].priorObj
    /\ heap[calls[c].computed] = calls[c].computedObj
    /\ heap[calls[c].update] = calls[c].updateObj
    /\ ~calls[c].overwrite =>
         /\ calls[c].computed # calls[c].prior
         /\ calls[c].computed # calls[c].update
         /\ calls[c].computed \notin PoolRefs
         /\ \A d \in 1..(c - 1) :
              calls[c].computed \notin {calls[d].prior, calls[d].computed}

\* Two merges have returned; the second changed the contents of the state,
\* and the object the first one made the state is not the state any more;
\* getState() has read the new state.
C13_Witness ==
  /\ Len(calls) = 2
  /\ stack = <<>>
  /\ ~calls[1].overwrite
  /\ ~calls[2].overwrite
  /\ calls[1].computedObj # <<>>
  /\ calls[2].computedObj # calls[1].computedObj
  /\ calls[1].computed # state
  /\ got = state

\* The number of slice observers registered on key (0: the key has no list).
SliceCount(key) ==
  IF key \in DOMAIN onListeners THEN Len(onListeners[key]) ELSE 0

RECURSIVE SliceCountFrom(_, _)
\* The slice observers on the keys from position p on of the sequence keys.
SliceCountFrom(keys, p) ==
  IF p > Len(keys)
    THEN 0
    ELSE SliceCount(keys[p]) + SliceCountFrom(keys, p + 1)

\* The observers the activation at depth d of the stack has left to visit:
\* what its loops would still go through if no list changed any more.
Left(d) ==
  LET f == stack[d]
  IN  IF f.phase = 1
        THEN (Len(listeners) - f.i)
               + SliceCountFrom(ObjectKeys(heap[f.update]), 1)
        ELSE SliceCountFrom(f.stateChanged, f.j + 1) - f.k

\* C14. Run to completion, as the progress of the loops: while no callback
\* has called setState, no step gives an activation of setState more
\* observers to visit than it had left (subscribe and on calls made by its
\* callbacks included), so that each pass ends after the visits it had left
\* when it began.
C14_PassNeverGrows ==
  [][(\A c \in Calls : calls[c].parent = 0) =>
       \A d \in 1..Len(stack) :
         (d <= Len(stack') /\ stack'[d].call = stack[d].call)
           => Left(d)' <= Left(d)]_vars

\* The last invocation made.
LastEvent == log[Len(log)]

RegIndex(n) == Len(RecordsFor(regLog[n].key, n)) - 1

\* Activation f had not finished visiting key when it was in the state f:
\* key is a key of its update, and its second loop had not gone past it.
NotYetVisited(f, key) ==
  IF f.phase = 1
    THEN HasKey(heap[f.update], key)
    ELSE \E p \in (f.j + 1)..Len(f.stateChanged) : f.stateChanged[p] = key

\* C16. Late slice registration: when on(k, ...) is called from inside a
\* callback while a setState call is active whose update has the key k and
\* whose pass has not finished visiting k, that call, if it returns, has
\* invoked _li and _ef of the new observer in its phase 2, after the
\* registration.
C16_LateSliceInvoked ==
  \A r \in 1..Len(regLog) :
    regLog[r].key # "" =>
      \A d \in 1..Len(regLog[r].frames) :
        LET f == regLog[r].frames[d]
        IN  (NotYetVisited(f, regLog[r].key) /\ calls[f.call].outcome = "returned")
              => \A fn \in {"_li", "_ef"} :
                   \E n \in Events(f.call) :
                     /\ n > regLog[r].at
                     /\ log[n].phase = 2
                     /\ log[n].key = regLog[r].key
                     /\ log[n].idx = RegIndex(r)
                     /\ log[n].fn = fn
                     /\ log[n].cb = regLog[r].rec[fn]

\* A call has returned during which on(k, ...) was called with k a key of its
\* update, once from a whole-state observer in phase 1 or once from a slice
\* observer of k itself.
C16_Witness ==
  \E r \in 1..Len(regLog) :
    /\ regLog[r].key # ""
    /\ Len(regLog[r].frames) = 1
    /\ NotYetVisited(regLog[r].frames[1], regLog[r].key)
    /\ calls[regLog[r].frames[1].call].outcome = "returned"
    /\ \/ regLog[r].frames[1].phase = 1
       \/ /\ regLog[r].frames[1].phase = 2
          /\ CurrentKey(regLog[r].frames[1]) = regLog[r].key

\* C17. Registration and reads have no other effect: a step of on() or
\* subscribe() (the history of registrations grows) and a step of getState()
\* (a value is returned) change neither the state nor any object and invoke
\* no callback; on() leaves the whole-state list and the other keys' lists as
\* they are, subscribe() leaves every slice list as it is, getState() leaves
\* all lists as they are; and a callback is invoked only by a step of an
\* active setState call.
C17_RegistrationAndReadsFrame ==
  /\ [][Len(regLog') > Len(regLog) =>
          LET r == regLog'[Len(regLog')]
          IN  /\ state' = state /\ heap' = heap /\ log' = log
              /\ stack' = stack /\ calls' = calls
              /\ r.key # "" =>
                   /\ listeners' = listeners
                   /\ DOMAIN onListeners' = DOMAIN onListeners \cup {r.key}
                   /\ \A key \in DOMAIN onListeners \ {r.key} :
                        onListeners'[key] = onListeners[key]
              /\ r.key = "" => onListeners' = onListeners]_vars
  /\ [][got' # 0 =>
          /\ state' = state /\ heap' = heap /\ log' = log
          /\ stack' = stack /\ calls' = calls
          /\ listeners' = listeners /\ onListeners' = onListeners
          /\ regLog' = regLog]_vars
  /\ [][log' # log =>
          /\ stack # <<>>
          /\ log' = Append(log, log'[Len(log')])
          /\ log'[Len(log')].call = Top.call
          /\ calls[Top.call].outcome = "active"
          /\ regLog' = regLog /\ got' = 0]_vars

\* Inside a callback of a setState call, on() and then getState() have been
\* called, after a subscribe() made outside any call.
C17_Witness ==
  /\ got # 0
  /\ log # <<>>
  /\ Len(regLog) = 2
  /\ regLog[1].key = "" /\ regLog[1].frames = <<>>
  /\ regLog[2].key # "" /\ regLog[2].frames # <<>>

====
